---- MODULE Spec2Model ----
(***************************************************************************)
(* Model of scrape.py: the six portal routines (scrape_empresite,          *)
(* scrape_europages, scrape_paginasamarillas, scrape_einforma,             *)
(* scrape_empresia, scrape_librebor), launch_browser, the try/finally      *)
(* release of the browser, main's output loop, and wait_for_challenge.     *)
(*                                                                         *)
(* The server is the environment: every response (status, exception,       *)
(* number of cards, names, next link, challenge outcome) is drawn with \E. *)
(* A record is represented by its canonical key (legal name for Empresite, *)
(* PaginasAmarillas, Einforma and LibreBOR; slug for Europages and         *)
(* Empresia).                                                              *)
(***************************************************************************)
EXTENDS Integers, Sequences, FiniteSets, TLC

\* ---------------------------------------------------------------- bounds
\* number of distinct canonical keys the server can serve
NumKeys == 2
\* largest --limit value explored (0 = no limit)
MaxLimit == 2
\* the server stops serving named items once this many records are held
MaxRecords == 2
\* length of the scope lists (cities, search terms, categories)
MaxScopes == 2
\* items of one page that can carry a name; further items carry none
MaxItems == 2
\* page numbers of the loops without a ceiling are folded onto MaxPage
MaxPage == 42
\* largest timeout handed to wait_for_challenge
MaxTimeout == 12
\* largest max_retries handed to _cffi_fetch
MaxRetries == 3
\* largest value of --delay-min / --delay-max, in seconds
MaxDelayArg == 8
\* longest name text after its optional "Sobre " prefix, in characters
MaxNameLen == 3
\* longest phone text after its optional "tel:" prefix, in characters
MaxPhoneLen == 9
\* scripted server: pages of a scope, named items on a page, companies, and
\* the largest --limit of a scripted run
ScriptPages == 2
ScriptItems == 3
ScriptKeys == 5
ScriptLimit == 5
\* elements on the page of an item loop
MaxPageItems == 3
\* characters around a fingerprint-like text in a page body
MaxPad == 1

\* ------------------------------------------------------ program constants
EmpresitePageSize == 30
EmpresiteMaxPage == 40
EuropagesMaxPage == 10
PaMaxPage == 20
PollInterval == 5
DefaultMaxRetries == 3
BackoffBase == 30
DefaultMinDelay == 4
DefaultMaxDelay == 7
MinPhoneLen == 9

Keys == 1..NumKeys

Portals ==
  {"empresite", "europages", "paginasamarillas", "einforma", "empresia", "librebor"}

\* the portals whose routine starts with launch_browser
BrowserPortals == Portals \ {"empresite"}

VARIABLES
  portal,     \* args.portal
  limit,      \* args.limit (0 stands for None and 0)
  details,    \* args.details
  pc,         \* position of the run
  nscopes,    \* length of the scope list (cities / terms / categories)
  scope,      \* index of the current scope in that list
  pnum,       \* page / page_num / pnum
  n,          \* number of cards / listings / rows / links / results of the page
  slugs,      \* Europages: slugs of the current page that were not yet seen
  idx,        \* number of items of the current page already iterated
  new,        \* PaginasAmarillas: new
  mode,       \* which list the item loop iterates ("rows", "links", "json", "html")
  cur,        \* key of the item whose detail page is being fetched (0 = none)
  listNext,   \* the listing response of page pnum carries a next affordance
  hasNext,    \* the page now loaded in the browser carries a next affordance
  companies,  \* companies (the keys of the records, in order)
  seen,       \* seen / seen_urls
  pw,         \* Playwright driver: "none", "started", "stopped"
  ctx,        \* persistent context: "none", "open", "closed"
  exc,        \* an exception is propagating out of the routine
  sink,       \* records main has written to the output
  net,        \* network operation issued by the last step
  err,        \* failure met by the last step ("none" when it met none)
  extracted,  \* keys of the items the page extraction has produced so far
  reqPage,    \* number of the last listing page requested in the current scope
  emptyAt,    \* number of a page of the current scope that had zero items (0 = none)
  wpc,        \* wait_for_challenge: position
  wseq,       \* wait_for_challenge: successive readings of page.content()
  wtimeout,   \* wait_for_challenge: timeout
  elapsed,    \* wait_for_challenge: elapsed
  ticks,      \* wait_for_challenge: number of asyncio.sleep(5) calls made
  wres,       \* wait_for_challenge: return value ("none" while running)
  fpc,        \* _cffi_fetch: position
  fseq,       \* _cffi_fetch: status codes of the successive responses
  fmax,       \* _cffi_fetch: max_retries
  attempt,    \* _cffi_fetch: attempt
  nreq,       \* _cffi_fetch: number of curl_requests.request calls made
  fwaits,     \* _cffi_fetch: the time.sleep durations, in order
  fres,       \* _cffi_fetch: index of the response returned (0 while running)
  dpc,        \* delays: position of main ("main" before the globals are set)
  argmin,     \* args.delay_min
  argmax,     \* args.delay_max
  gmin,       \* the global MIN_DELAY
  gmax,       \* the global MAX_DELAY
  defmin,     \* human_delay's default for min_s
  defmax,     \* human_delay's default for max_s
  lastKind,   \* the last delay: "default", "explicit", "inline" or "none"
  lastWait,   \* seconds the last delay slept
  rpc,        \* record: "page" before extraction, then "skipped", "built", "written"
  rpath,      \* record: the extraction path
  rawName,    \* record: the name text found on the page, a sequence of characters
  company,    \* record: the dict appended to companies
  written,    \* record: the dict main hands to json.dumps
  ppc,        \* phone: "raw" before normalization, then "done"
  rawPhone,   \* phone: the href or text of the phone element
  phone,      \* phone: the normalized string
  hasPhone,   \* phone: the record got a phone field
  sportal,    \* scripted run: the portal
  slimit,     \* scripted run: limit
  script,     \* scripted run: the pages the server holds for the scope
  spc,        \* scripted run: position ("page", "item", "ended")
  spnum,      \* scripted run: pnum / page
  sidx,       \* scripted run: named items of the page handled so far
  snew,       \* scripted run: new
  srecs,      \* scripted run: companies
  sseen,      \* scripted run: seen
  sreq,       \* scripted run: the page numbers requested, in order
  iportal,    \* item loop: the portal
  ishapes,    \* item loop: the shape of each element of the page, in order
  ipc,        \* item loop: position ("item", "ended", "raised")
  iidx,       \* item loop: elements handled so far
  irecs,      \* item loop: the elements that gave a record, in order
  hpc,        \* has_challenge: position ("call", "returned")
  content,    \* has_challenge: the body it is given
  hres,       \* has_challenge: its return value
  ops,        \* the waits and network operations of the last step, in order
  pace        \* "fresh" before the first request, "delayed" when a Delay
              \* Scheduler wait has run since the last request, else "hot"

cfg == <<portal, limit, details>>
browser == <<pw, ctx>>
waitv == <<wpc, wseq, wtimeout, elapsed, ticks, wres>>
pagev == <<n, slugs, idx, new, mode, cur, listNext, hasNext>>
pacev == <<ops, pace>>
fetchv == <<fpc, fseq, fmax, attempt, nreq, fwaits, fres>>
\* the variables of the helper functions that a portal step leaves alone
delayv == <<dpc, argmin, argmax, gmin, gmax, defmin, defmax, lastKind, lastWait>>
recv == <<rpc, rpath, rawName, company, written>>
phonev == <<ppc, rawPhone, phone, hasPhone>>
scriptv == <<sportal, slimit, script, spc, spnum, sidx, snew, srecs, sseen, sreq>>
itemv == <<iportal, ishapes, ipc, iidx, irecs>>
chalv == <<hpc, content, hres>>
auxv == <<fetchv, delayv, recv, phonev, scriptv, itemv, chalv>>
vars == <<portal, limit, details, pc, nscopes, scope, pnum, n, slugs, idx, new,
          mode, cur, listNext, hasNext, companies, seen, pw, ctx, exc, sink,
          net, err, extracted, reqPage, emptyAt,
          wpc, wseq, wtimeout, elapsed, ticks, wres,
          fpc, fseq, fmax, attempt, nreq, fwaits, fres,
          dpc, argmin, argmax, gmin, gmax, defmin, defmax, lastKind, lastWait,
          rpc, rpath, rawName, company, written,
          ppc, rawPhone, phone, hasPhone,
          sportal, slimit, script, spc, spnum, sidx, snew, srecs, sseen, sreq,
          iportal, ishapes, ipc, iidx, irecs,
          hpc, content, hres,
          ops, pace>>

Min(a, b) == IF a < b THEN a ELSE b

\* ------------------------------------------------------------ shared tests

\* ------------------------------------------------------------ pacing

\* the network-facing operations: page.goto, _cffi_fetch's first request,
\* the click on a suggestion, and a request repeated by _cffi_fetch
NetOps == {"nav", "fetch", "click", "retry"}

\* `await human_delay(...)`: one Delay Scheduler wait
HumanDelaySkipped == <<>>
HumanDelay == <<"d">>

\* `await asyncio.sleep(random.uniform(MIN_DELAY, MAX_DELAY))` of Empresite
InlineDelay == <<"d">>

\* retries a call of _cffi_fetch with the default max_retries can make
Retries == 0..(DefaultMaxRetries - 1)

\* a call of _cffi_fetch that repeats its request k times: each repetition
\* follows the backoff `time.sleep(wait)`, marked "b"
FetchOps(k) ==
  <<"fetch">> \o [i \in 1..(2 * k) |-> IF i % 2 = 1 THEN "b" ELSE "retry"]

\* the navigation got past goto and the challenge wait
Landed(r) == r \notin {"raise", "challenge"}

\* human_delay(); page.goto(...); wait_for_challenge(...); human_delay(a, b)
NavOps(r) ==
  HumanDelay \o <<"nav">> \o (IF Landed(r) THEN HumanDelay ELSE <<>>)

\* page.goto(BASE); human_delay(a, b); then the challenge wait, if any
HomeOps(r) == <<"nav">> \o (IF r = "raise" THEN <<>> ELSE HumanDelay)

\* human_delay(); page.goto(...); wait_for_challenge(...) of LibreBOR
ApiOps == HumanDelay \o <<"nav">>

\* Empresia's suggestion: the navigation to the search page, then the click
\* when the iteration gets that far
ClickOps(r, clicked) ==
  IF clicked THEN NavOps("ok") \o <<"click">> ELSE NavOps(r)

\* the pacing state after a step that ran the operations o
PaceAfter(p, o) ==
  LET nets == {i \in 1..Len(o) : o[i] \in NetOps}
      last == IF nets = {} THEN 0
              ELSE CHOOSE i \in nets : \A j \in nets : j <= i
      waited == \E j \in (last + 1)..Len(o) : o[j] = "d"
  IN IF nets = {} THEN (IF waited /\ p = "hot" THEN "delayed" ELSE p)
     ELSE IF waited THEN "delayed" ELSE "hot"

\* the step ran the operations o
Step(o) == ops' = o /\ pace' = PaceAfter(pace, o)

\* `if limit and len(companies) >= limit` / `if limit and total >= limit`
LimitReachedStrict == limit # 0 /\ Len(companies) > limit
LimitReached == limit # 0 /\ Len(companies) >= limit

\* `if not cards: break`, `if not slugs`, `if not listings`, `if not results`
NoItemsNever(k) == FALSE
NoItems(k) == k = 0

\* companies are numbered in the order the run first meets them: an item
\* names a company already met or the next one not yet met
Named == {k \in Keys : k <= Cardinality(extracted) + 1}

\* keys the server may still serve as a usable name / slug
Servable == IF Len(companies) < MaxRecords THEN Named ELSE {}

\* the failure an outcome of a request stands for
Failure(r) ==
  CASE r = "raise" -> "transport"
    [] r = "challenge" -> "challenge"
    [] r = "status" -> "status"
    [] r = "notdict" -> "shape"
    [] OTHER -> "none"

\* where control goes when an exception leaves the body of the routine:
\* the finally block of a browser portal, or straight out of scrape_empresite
Escape == IF portal = "empresite" THEN "exit" ELSE "finally"

\* positions inside the body of a portal routine
BodyPcs ==
  {"e_city", "e_page", "e_card", "e_detail",
   "u_term", "u_page", "u_slug",
   "p_home", "p_cat", "p_page", "p_item",
   "i_home", "i_list", "i_page", "i_item",
   "m_home", "m_term", "m_text",
   "l_home", "l_page", "l_item", "l_link"}

\* first position of the body of each browser portal
FirstPc ==
  [p \in BrowserPortals |->
     CASE p = "europages" -> "u_term"
       [] p = "paginasamarillas" -> "p_home"
       [] p = "einforma" -> "i_home"
       [] p = "empresia" -> "m_home"
       [] p = "librebor" -> "l_home"]

\* ------------------------------------------------------------------- Init

WaitIdle ==
  /\ wpc = "idle" /\ wseq = <<>> /\ wtimeout = 0
  /\ elapsed = 0 /\ ticks = 0 /\ wres = "none"

FetchIdle ==
  /\ fpc = "idle" /\ fseq = <<>> /\ fmax = 0
  /\ attempt = 0 /\ nreq = 0 /\ fwaits = <<>> /\ fres = 0

DelayIdle ==
  /\ dpc = "idle" /\ argmin = 0 /\ argmax = 0 /\ gmin = 0 /\ gmax = 0
  /\ defmin = 0 /\ defmax = 0 /\ lastKind = "none" /\ lastWait = 0

RecordIdle ==
  /\ rpc = "idle" /\ rpath = "none" /\ rawName = <<>>
  /\ company = <<>> /\ written = <<>>

PhoneIdle ==
  /\ ppc = "idle" /\ rawPhone = <<>> /\ phone = <<>> /\ hasPhone = FALSE

ScriptIdle ==
  /\ sportal = "none" /\ slimit = 0 /\ script = <<>> /\ spc = "idle"
  /\ spnum = 0 /\ sidx = 0 /\ snew = 0 /\ srecs = <<>> /\ sseen = {} /\ sreq = <<>>

ItemIdle ==
  iportal = "none" /\ ishapes = <<>> /\ ipc = "idle" /\ iidx = 0 /\ irecs = <<>>

ChalIdle == hpc = "idle" /\ content = <<>> /\ hres = FALSE

\* the helper functions are not running
AuxIdle == FetchIdle /\ DelayIdle /\ RecordIdle /\ PhoneIdle /\ ScriptIdle /\ ItemIdle /\ ChalIdle

RunIdle ==
  /\ ops = <<>> /\ pace = "fresh"
  /\ nscopes = 0 /\ scope = 1 /\ pnum = 1
  /\ n = 0 /\ slugs = <<>> /\ idx = 0 /\ new = 0 /\ mode = "none" /\ cur = 0
  /\ listNext = FALSE /\ hasNext = FALSE
  /\ companies = <<>> /\ seen = {}
  /\ pw = "none" /\ ctx = "none" /\ exc = FALSE
  /\ sink = <<>> /\ net = "none" /\ err = "none"
  /\ extracted = {} /\ reqPage = 0 /\ emptyAt = 0

Init ==
  /\ portal \in Portals
  /\ limit \in 0..MaxLimit
  /\ details \in (IF portal = "empresite" THEN BOOLEAN ELSE {FALSE})
  /\ pc = "start"
  /\ RunIdle
  /\ WaitIdle
  /\ AuxIdle

\* no portal routine is running: the state in which a helper is run alone
Parked ==
  /\ portal = "empresite" /\ limit = 0 /\ details = FALSE
  /\ pc = "parked"
  /\ RunIdle

\* ------------------------------------------- launch_browser, finally, main

\* launch_browser: start the driver, launch the persistent context, get a page
LaunchBrowser ==
  /\ pc = "start" /\ portal \in BrowserPortals
  /\ \E step \in {"ok", "start_fails", "launch_fails", "new_page_fails"} :
       /\ pw' = IF step = "start_fails" THEN "none" ELSE "started"
       /\ ctx' = IF step \in {"start_fails", "launch_fails"} THEN "none" ELSE "open"
       /\ exc' = (step # "ok")
       /\ pc' = IF step = "ok" THEN FirstPc[portal] ELSE "exit"
  /\ net' = "none" /\ err' = "none" /\ Step(<<>>)
  /\ UNCHANGED <<cfg, nscopes, scope, pnum, pagev, companies, seen, sink,
                 extracted, reqPage, emptyAt, waitv, auxv>>

\* finally: await context.close()
CloseContext ==
  /\ pc = "finally"
  /\ \E ok \in BOOLEAN :
       IF ok THEN ctx' = "closed" /\ pc' = "pwstop" /\ exc' = exc
             ELSE ctx' = ctx /\ pc' = "exit" /\ exc' = TRUE
  /\ net' = "none" /\ err' = "none" /\ Step(<<>>)
  /\ UNCHANGED <<cfg, nscopes, scope, pnum, pagev, companies, seen, pw, sink,
                 extracted, reqPage, emptyAt, waitv, auxv>>

\* finally: await pw.stop()
StopDriver ==
  /\ pc = "pwstop"
  /\ \E ok \in BOOLEAN :
       IF ok THEN pw' = "stopped" /\ exc' = exc
             ELSE pw' = pw /\ exc' = TRUE
  /\ pc' = "exit"
  /\ net' = "none" /\ err' = "none" /\ Step(<<>>)
  /\ UNCHANGED <<cfg, nscopes, scope, pnum, pagev, companies, seen, ctx, sink,
                 extracted, reqPage, emptyAt, waitv, auxv>>

\* main: the routine returned, every company is written to the output
MainWrite ==
  /\ pc = "exit" /\ ~exc
  /\ sink' = companies
  /\ pc' = "done"
  /\ net' = "none" /\ err' = "none" /\ Step(<<>>)
  /\ UNCHANGED <<cfg, nscopes, scope, pnum, pagev, companies, seen, browser, exc,
                 extracted, reqPage, emptyAt, waitv, auxv>>

\* main: asyncio.run raised, `companies` is never bound and nothing is written
MainAbort ==
  /\ pc = "exit" /\ exc
  /\ pc' = "done"
  /\ net' = "none" /\ err' = "none" /\ Step(<<>>)
  /\ UNCHANGED <<cfg, nscopes, scope, pnum, pagev, companies, seen, browser, exc,
                 sink, extracted, reqPage, emptyAt, waitv, auxv>>

\* operator interrupt / cancellation while the body of the routine runs
Interrupt ==
  /\ pc \in BodyPcs
  /\ exc' = TRUE
  /\ pc' = Escape
  /\ net' = "none" /\ err' = "none" /\ Step(<<>>)
  /\ UNCHANGED <<cfg, nscopes, scope, pnum, pagev, companies, seen, browser,
                 sink, extracted, reqPage, emptyAt, waitv, auxv>>

\* -------------------------------------------------------------- Empresite

\* number of div.cardCompanyBox elements a listing page can carry
CardCounts == (0..MaxItems) \cup {EmpresitePageSize}

\* `if city: cities = [(city, city)]`
EmpresiteCityGiven ==
  /\ pc = "start" /\ portal = "empresite"
  /\ nscopes' = 1
  /\ pc' = "e_city"
  /\ net' = "none" /\ err' = "none" /\ Step(<<>>)
  /\ UNCHANGED <<cfg, scope, pnum, pagev, companies, seen, browser, exc, sink,
                 extracted, reqPage, emptyAt, waitv, auxv>>

\* `else:` fetch the province page and parse the city list
EmpresiteFetchCities ==
  /\ pc = "start" /\ portal = "empresite"
  /\ net' = "home"
  /\ \E r \in {"raise", "status", "ok"} :
       /\ err' = Failure(r)
       /\ \E k \in Retries : Step(FetchOps(k))
       /\ CASE r = "raise" -> exc' = TRUE /\ pc' = "exit" /\ nscopes' = nscopes
         [] r = "status" -> exc' = exc /\ pc' = "exit" /\ nscopes' = nscopes
         [] r = "ok" -> /\ exc' = exc /\ pc' = "e_city"
                        /\ nscopes' \in 0..MaxScopes
  /\ UNCHANGED <<cfg, scope, pnum, pagev, companies, seen, browser, sink,
                 extracted, reqPage, emptyAt, waitv, auxv>>

\* `for city_name, city_slug in cities:` with its limit check
EmpresiteNextCity ==
  /\ pc = "e_city"
  /\ IF scope > nscopes \/ LimitReached
       THEN pc' = "exit" /\ pnum' = pnum
       ELSE pc' = "e_page" /\ pnum' = 1
  /\ reqPage' = 0 /\ emptyAt' = 0
  /\ net' = "none" /\ err' = "none" /\ Step(<<>>)
  /\ UNCHANGED <<cfg, nscopes, scope, pagev, companies, seen, browser, exc, sink,
                 extracted, waitv, auxv>>

\* the listing response is parsed unless `resp.status_code != 200` or the
\* fetch raised: both `break` out of the city's page loop
PageUsableAnyStatus(r) == r # "raise"
PageUsable(r) == r = "ok"

\* `while True:` limit check, delay, POST of the listing page, card selection
EmpresitePage ==
  /\ pc = "e_page"
  /\ IF LimitReached
       THEN /\ pc' = "e_city" /\ scope' = scope + 1
            /\ net' = "none" /\ err' = "none" /\ Step(<<>>)
            /\ UNCHANGED <<n, idx, listNext, reqPage, emptyAt>>
       ELSE /\ net' = "page"
            /\ reqPage' = pnum
            /\ \E r \in {"raise", "status", "ok"} :
                 /\ err' = Failure(r)
                 /\ \E k \in Retries : Step(InlineDelay \o FetchOps(k))
                 /\ IF PageUsable(r)
                   THEN \E nc \in CardCounts, ln \in BOOLEAN :
                          /\ n' = nc /\ listNext' = ln /\ idx' = 0
                          /\ IF NoItems(nc)
                               THEN /\ pc' = "e_city" /\ scope' = scope + 1
                                    /\ emptyAt' = pnum
                               ELSE /\ pc' = "e_card" /\ scope' = scope
                                    /\ emptyAt' = IF nc = 0 THEN pnum ELSE emptyAt
                   ELSE /\ pc' = "e_city" /\ scope' = scope + 1
                        /\ UNCHANGED <<n, idx, listNext, emptyAt>>
  /\ UNCHANGED <<cfg, nscopes, pnum, slugs, new, mode, cur, hasNext, companies,
                 seen, browser, exc, sink, extracted, waitv, auxv>>

\* one iteration of `for card in cards:` up to the detail fetch
EmpresiteCard ==
  /\ pc = "e_card"
  /\ idx < Min(n, MaxItems) /\ ~LimitReached
  /\ net' = "none" /\ err' = "none" /\ Step(<<>>)
  /\ \/ \* no name meta, or an empty name: continue
        /\ idx' = idx + 1
        /\ UNCHANGED <<pc, cur, companies, extracted>>
     \/ \E k \in Servable, url \in BOOLEAN :
          /\ extracted' = extracted \cup {k}
          /\ IF details /\ url
               THEN /\ cur' = k /\ pc' = "e_detail"
                    /\ UNCHANGED <<idx, companies>>
               ELSE /\ companies' = Append(companies, k)
                    /\ idx' = idx + 1
                    /\ UNCHANGED <<pc, cur>>
  /\ UNCHANGED <<cfg, nscopes, scope, pnum, n, slugs, new, mode, listNext, hasNext,
                 seen, browser, exc, sink, reqPage, emptyAt, waitv, auxv>>

\* the optional detail fetch; every outcome keeps the card's record
EmpresiteDetail ==
  /\ pc = "e_detail"
  /\ net' = "detail"
  /\ \E r \in {"raise", "status", "ok"} :
       /\ err' = Failure(r)
       /\ \E k \in Retries : Step(InlineDelay \o FetchOps(k))
       /\ companies' = Append(companies, cur)
       /\ cur' = 0
       /\ idx' = idx + 1
       /\ pc' = "e_card"
  /\ UNCHANGED <<cfg, nscopes, scope, pnum, n, slugs, new, mode, listNext, hasNext,
                 seen, browser, exc, sink, extracted, reqPage, emptyAt, waitv, auxv>>

\* end of the card loop: `if len(cards) < 30`, `if page >= 40`, `page += 1`
EmpresiteEndPage ==
  /\ pc = "e_card"
  /\ idx >= Min(n, MaxItems) \/ LimitReached
  /\ IF n < EmpresitePageSize \/ pnum >= EmpresiteMaxPage
       THEN pc' = "e_city" /\ scope' = scope + 1 /\ pnum' = pnum
       ELSE pc' = "e_page" /\ scope' = scope /\ pnum' = pnum + 1
  /\ net' = "none" /\ err' = "none" /\ Step(<<>>)
  /\ UNCHANGED <<cfg, nscopes, pagev, companies, seen, browser, exc, sink,
                 extracted, reqPage, emptyAt, waitv, auxv>>

\* -------------------------------------------------------------- Europages

\* the href lists a search page can carry: company links, by slug
LinkLists ==
  {l \in UNION {[1..m -> Keys] : m \in 0..MaxItems} :
     \A i \in DOMAIN l :
       l[i] <= Cardinality(extracted \cup {l[j] : j \in 1..(i - 1)}) + 1}

\* every link of the page, whatever seen_urls holds
AllSlugs(links, s) == links

RECURSIVE NewSlugs(_, _)
\* `for link in raw_links: if base not in seen_urls: ... slugs.append(base)`
NewSlugs(links, s) ==
  IF links = <<>> THEN <<>>
  ELSE IF Head(links) \in s THEN NewSlugs(Tail(links), s)
  ELSE <<Head(links)>> \o NewSlugs(Tail(links), s \cup {Head(links)})

Range(f) == {f[i] : i \in DOMAIN f}

\* `for term in EUROPAGES_SEARCH_TERMS:` with its limit check
EuropagesNextTerm ==
  /\ pc = "u_term"
  /\ IF scope > MaxScopes \/ LimitReached
       THEN pc' = "finally" /\ pnum' = pnum
       ELSE pc' = "u_page" /\ pnum' = 1
  /\ reqPage' = 0 /\ emptyAt' = 0
  /\ net' = "none" /\ err' = "none" /\ Step(<<>>)
  /\ UNCHANGED <<cfg, nscopes, scope, pagev, companies, seen, browser, exc, sink,
                 extracted, waitv, auxv>>

\* `while True:` limit check, delay, goto of the search page, challenge wait,
\* slug extraction against seen_urls
EuropagesPage ==
  /\ pc = "u_page"
  /\ IF LimitReached
       THEN /\ pc' = "u_term" /\ scope' = scope + 1
            /\ net' = "none" /\ err' = "none" /\ Step(<<>>)
            /\ UNCHANGED <<n, slugs, idx, listNext, hasNext, seen, extracted,
                           reqPage, emptyAt>>
       ELSE /\ net' = "page"
            /\ reqPage' = pnum
            /\ \E r \in {"raise", "challenge", "ok"} :
                 /\ err' = Failure(r) /\ Step(NavOps(r))
                 /\ IF r = "ok"
                   THEN \E links \in LinkLists, ln \in BOOLEAN :
                          /\ n' = Len(links)
                          /\ slugs' = NewSlugs(links, seen)
                          /\ seen' = seen \cup Range(links)
                          /\ extracted' = extracted \cup Range(links)
                          /\ listNext' = ln /\ hasNext' = ln /\ idx' = 0
                          /\ emptyAt' = IF links = <<>> THEN pnum ELSE emptyAt
                          /\ IF NoItems(Len(slugs'))
                               THEN pc' = "u_term" /\ scope' = scope + 1
                               ELSE pc' = "u_slug" /\ scope' = scope
                   ELSE /\ pc' = "u_term" /\ scope' = scope + 1
                        /\ UNCHANGED <<n, slugs, idx, listNext, hasNext, seen,
                                       extracted, emptyAt>>
  /\ UNCHANGED <<cfg, nscopes, pnum, new, mode, cur, companies, browser, exc,
                 sink, waitv, auxv>>

\* the company page gives a record when the goto did not raise, the challenge
\* wait succeeded and h1 / h2 carried a name; every other outcome is `continue`
SlugRecordedAlways(r) == TRUE
SlugRecorded(r) == r = "ok"

\* one iteration of `for slug in slugs:`: delay, goto of the company page,
\* challenge wait, name from h1 / h2, append
EuropagesSlug ==
  /\ pc = "u_slug"
  /\ idx < Len(slugs) /\ ~LimitReached
  /\ net' = "detail"
  /\ idx' = idx + 1
  /\ hasNext' \in BOOLEAN
  /\ \E r \in {"raise", "challenge", "noname", "ok"} :
       /\ err' = Failure(r) /\ Step(NavOps(r))
       /\ companies' = IF SlugRecorded(r) THEN Append(companies, slugs[idx + 1])
                                        ELSE companies
  /\ UNCHANGED <<cfg, pc, nscopes, scope, pnum, n, slugs, new, mode, cur, listNext,
                 seen, browser, exc, sink, extracted, reqPage, emptyAt, waitv, auxv>>

\* end of the slug loop: has_next is read from the page now loaded,
\* `if not has_next or page_num >= 10: break`, `page_num += 1`
EuropagesEndPage ==
  /\ pc = "u_slug"
  /\ idx >= Len(slugs) \/ LimitReached
  /\ IF ~hasNext \/ pnum >= EuropagesMaxPage
       THEN pc' = "u_term" /\ scope' = scope + 1 /\ pnum' = pnum
       ELSE pc' = "u_page" /\ scope' = scope /\ pnum' = pnum + 1
  /\ net' = "none" /\ err' = "none" /\ Step(<<>>)
  /\ UNCHANGED <<cfg, nscopes, pagev, companies, seen, browser, exc, sink,
                 extracted, reqPage, emptyAt, waitv, auxv>>

\* ------------------------------------------------------- PaginasAmarillas

\* goto of the homepage (outside any except), delay, challenge wait
PaHome ==
  /\ pc = "p_home"
  /\ net' = "home"
  /\ \E r \in {"raise", "challenge", "ok"} :
       /\ err' = Failure(r) /\ Step(HomeOps(r))
       /\ exc' = (r = "raise")
       /\ pc' = IF r = "ok" THEN "p_cat" ELSE "finally"
  /\ UNCHANGED <<cfg, nscopes, scope, pnum, pagev, companies, seen, browser, sink,
                 extracted, reqPage, emptyAt, waitv, auxv>>

\* `for cat in PA_CATEGORIES:` with its limit check
PaNextCat ==
  /\ pc = "p_cat"
  /\ IF scope > MaxScopes \/ LimitReached
       THEN pc' = "finally" /\ pnum' = pnum
       ELSE pc' = "p_page" /\ pnum' = 1
  /\ reqPage' = 0 /\ emptyAt' = 0
  /\ net' = "none" /\ err' = "none" /\ Step(<<>>)
  /\ UNCHANGED <<cfg, nscopes, scope, pagev, companies, seen, browser, exc, sink,
                 extracted, waitv, auxv>>

\* `while True:` limit check, delay, goto, challenge wait, listings query
PaPage ==
  /\ pc = "p_page"
  /\ IF LimitReached
       THEN /\ pc' = "p_cat" /\ scope' = scope + 1
            /\ net' = "none" /\ err' = "none" /\ Step(<<>>)
            /\ UNCHANGED <<n, idx, new, listNext, hasNext, reqPage, emptyAt>>
       ELSE /\ net' = "page"
            /\ reqPage' = pnum
            /\ \E r \in {"raise", "challenge", "ok"} :
                 /\ err' = Failure(r) /\ Step(NavOps(r))
                 /\ IF r = "ok"
                   THEN \E nl \in 0..MaxItems, ln \in BOOLEAN :
                          /\ n' = nl /\ listNext' = ln /\ hasNext' = ln
                          /\ idx' = 0 /\ new' = 0
                          /\ emptyAt' = IF nl = 0 THEN pnum ELSE emptyAt
                          /\ IF NoItems(nl)
                               THEN pc' = "p_cat" /\ scope' = scope + 1
                               ELSE pc' = "p_item" /\ scope' = scope
                   ELSE /\ pc' = "p_cat" /\ scope' = scope + 1
                        /\ UNCHANGED <<n, idx, new, listNext, hasNext, emptyAt>>
  /\ UNCHANGED <<cfg, nscopes, pnum, slugs, mode, cur, companies, seen, browser,
                 exc, sink, extracted, waitv, auxv>>

\* one iteration of `for li in listings:`
PaItem ==
  /\ pc = "p_item"
  /\ idx < n /\ ~LimitReached
  /\ net' = "none" /\ err' = "none" /\ Step(<<>>)
  /\ idx' = idx + 1
  /\ \/ \* no name element, or an empty name: continue
        UNCHANGED <<companies, seen, new, extracted>>
     \/ \E k \in Named :
          /\ extracted' = extracted \cup {k}
          /\ IF k \in seen
               THEN UNCHANGED <<companies, seen, new>>
               ELSE /\ seen' = seen \cup {k}
                    /\ companies' = Append(companies, k)
                    /\ new' = new + 1
  /\ UNCHANGED <<cfg, pc, nscopes, scope, pnum, n, slugs, mode, cur, listNext,
                 hasNext, browser, exc, sink, reqPage, emptyAt, waitv, auxv>>

\* end of the listing loop: `if new == 0: break`,
\* `if not has_next or pnum >= 20: break`, `pnum += 1`
PaEndPage ==
  /\ pc = "p_item"
  /\ idx >= n \/ LimitReached
  /\ IF new = 0 \/ ~hasNext \/ pnum >= PaMaxPage
       THEN pc' = "p_cat" /\ scope' = scope + 1 /\ pnum' = pnum
       ELSE pc' = "p_page" /\ scope' = scope /\ pnum' = pnum + 1
  /\ net' = "none" /\ err' = "none" /\ Step(<<>>)
  /\ UNCHANGED <<cfg, nscopes, pagev, companies, seen, browser, exc, sink,
                 extracted, reqPage, emptyAt, waitv, auxv>>

\* --------------------------------------------------------------- Einforma

\* `pnum += 1` of a loop without ceiling; numbers above MaxPage fold onto it
NextPnum(p) == IF p < MaxPage THEN p + 1 ELSE p

\* goto of the homepage (outside any except), delay, cookie button
EinformaHome ==
  /\ pc = "i_home"
  /\ net' = "home"
  /\ \E r \in {"raise", "ok"} :
       /\ err' = Failure(r) /\ Step(HomeOps(r))
       /\ exc' = (r = "raise")
       /\ pc' = IF r = "ok" THEN "i_list" ELSE "finally"
  /\ UNCHANGED <<cfg, nscopes, scope, pnum, pagev, companies, seen, browser, sink,
                 extracted, reqPage, emptyAt, waitv, auxv>>

\* goto of the province listing (outside any except), delay, challenge wait
EinformaListing ==
  /\ pc = "i_list"
  /\ net' = "page"
  /\ reqPage' = 1
  /\ pnum' = 1
  /\ \E r \in {"raise", "challenge", "ok"} :
       /\ err' = Failure(r) /\ Step(HomeOps(r))
       /\ exc' = (r = "raise")
       /\ pc' = IF r = "ok" THEN "i_page" ELSE "finally"
  /\ UNCHANGED <<cfg, nscopes, scope, pagev, companies, seen, browser, sink,
                 extracted, emptyAt, waitv, auxv>>

\* `while True:` limit check, goto of page pnum > 1, challenge wait,
\* rows and links of the page now loaded
EinformaPage ==
  /\ pc = "i_page"
  /\ IF LimitReached
       THEN /\ pc' = "finally"
            /\ net' = "none" /\ err' = "none" /\ Step(<<>>)
            /\ UNCHANGED <<n, idx, mode, listNext, hasNext, reqPage, emptyAt>>
       ELSE /\ net' = IF pnum > 1 THEN "page" ELSE "none"
            /\ reqPage' = pnum
            /\ \E r \in (IF pnum > 1 THEN {"raise", "challenge", "ok"} ELSE {"ok"}) :
                 /\ err' = Failure(r) /\ Step(IF pnum > 1 THEN NavOps(r) ELSE <<>>)
                 /\ IF r = "ok"
                   THEN \E nrows \in 0..MaxItems, nlinks \in 0..MaxItems,
                           ln \in BOOLEAN :
                          /\ mode' = IF nrows > 0 THEN "rows" ELSE "links"
                          /\ n' = IF nrows > 0 THEN nrows ELSE nlinks
                          /\ listNext' = ln /\ hasNext' = ln /\ idx' = 0
                          /\ emptyAt' = IF n' = 0 THEN pnum ELSE emptyAt
                          /\ pc' = IF NoItems(n') THEN "finally" ELSE "i_item"
                   ELSE /\ pc' = "finally"
                        /\ UNCHANGED <<n, idx, mode, listNext, hasNext, emptyAt>>
  /\ UNCHANGED <<cfg, nscopes, scope, pnum, slugs, new, cur, companies, seen,
                 browser, exc, sink, extracted, waitv, auxv>>

\* one iteration of `for row in rows:` or of `for link in links:`
EinformaItem ==
  /\ pc = "i_item"
  /\ idx < n /\ ~LimitReached
  /\ net' = "none" /\ err' = "none" /\ Step(<<>>)
  /\ idx' = idx + 1
  /\ \/ \* no name element, an empty name, an empty slug: skipped
        UNCHANGED <<companies, extracted>>
     \/ \E k \in Servable :
          /\ extracted' = extracted \cup {k}
          /\ companies' = Append(companies, k)
  /\ UNCHANGED <<cfg, pc, nscopes, scope, pnum, n, slugs, new, mode, cur, listNext,
                 hasNext, seen, browser, exc, sink, reqPage, emptyAt, waitv, auxv>>

\* end of the item loop: `if not has_next: break`, `pnum += 1`
EinformaEndPage ==
  /\ pc = "i_item"
  /\ idx >= n \/ LimitReached
  /\ IF ~hasNext
       THEN pc' = "finally" /\ pnum' = pnum
       ELSE pc' = "i_page" /\ pnum' = NextPnum(pnum)
  /\ net' = "none" /\ err' = "none" /\ Step(<<>>)
  /\ UNCHANGED <<cfg, nscopes, scope, pagev, companies, seen, browser, exc, sink,
                 extracted, reqPage, emptyAt, waitv, auxv>>

\* --------------------------------------------------------------- Empresia

\* goto of the homepage (outside any except), delay
EmpresiaHome ==
  /\ pc = "m_home"
  /\ net' = "home"
  /\ \E r \in {"raise", "ok"} :
       /\ err' = Failure(r) /\ Step(HomeOps(r))
       /\ exc' = (r = "raise")
       /\ pc' = IF r = "ok" THEN "m_term" ELSE "finally"
  /\ UNCHANGED <<cfg, nscopes, scope, pnum, pagev, companies, seen, browser, sink,
                 extracted, reqPage, emptyAt, waitv, auxv>>

\* `for term in EMPRESIA_SEARCH_TERMS:` limit check, delay, goto of the search
\* page (outside any except), typing the query, reading the suggestions
EmpresiaTerm ==
  /\ pc = "m_term"
  /\ IF scope > MaxScopes \/ LimitReached
       THEN /\ pc' = "finally"
            /\ net' = "none" /\ err' = "none" /\ Step(<<>>)
            /\ UNCHANGED <<scope, n, idx, exc, reqPage, emptyAt>>
       ELSE /\ net' = "page"
            /\ reqPage' = 1
            /\ \E r \in {"raise", "nosearch", "ok"} :
                 /\ err' = Failure(r) /\ Step(NavOps(r))
                 /\ CASE r = "raise" ->
                        /\ exc' = TRUE /\ pc' = "finally"
                        /\ emptyAt' = 0
                        /\ UNCHANGED <<scope, n, idx>>
                   [] r = "nosearch" ->
                        /\ pc' = "m_term" /\ scope' = scope + 1
                        /\ emptyAt' = 0
                        /\ UNCHANGED <<n, idx, exc>>
                   [] r = "ok" ->
                        \E nt \in 0..MaxItems :
                          /\ n' = nt /\ idx' = 0
                          /\ emptyAt' = IF nt = 0 THEN 1 ELSE 0
                          /\ IF NoItems(nt)
                               THEN pc' = "m_term" /\ scope' = scope + 1
                               ELSE pc' = "m_text" /\ scope' = scope
                          /\ exc' = exc
  /\ UNCHANGED <<cfg, nscopes, pnum, slugs, new, mode, cur, listNext, hasNext,
                 companies, seen, browser, sink, extracted, waitv, auxv>>

\* one iteration of `for text in texts:`: delay, goto of the search page,
\* typing, click on the first suggestion (both outside any except),
\* slug against seen, name from the body or h1, append
EmpresiaText ==
  /\ pc = "m_text"
  /\ idx < n /\ ~LimitReached
  /\ net' = "detail"
  /\ idx' = idx + 1
  /\ \/ \* goto or click raises
        /\ err' = "transport"
        /\ \E clicked \in BOOLEAN : Step(ClickOps("raise", clicked))
        /\ exc' = TRUE /\ pc' = "finally"
        /\ UNCHANGED <<companies, seen, extracted>>
     \/ \* no search input, no suggestion, or the click did not reach /empresa/
        /\ err' = "none"
        /\ \E clicked \in BOOLEAN : Step(ClickOps("ok", clicked))
        /\ UNCHANGED <<pc, exc, companies, seen, extracted>>
     \/ \E k \in Named, named \in BOOLEAN :
          /\ err' = "none" /\ Step(ClickOps("ok", TRUE))
          /\ extracted' = extracted \cup {k}
          /\ IF k \in seen
               THEN UNCHANGED <<companies, seen>>
               ELSE /\ seen' = seen \cup {k}
                    /\ companies' = IF named THEN Append(companies, k)
                                             ELSE companies
          /\ UNCHANGED <<pc, exc>>
  /\ UNCHANGED <<cfg, nscopes, scope, pnum, n, slugs, new, mode, cur, listNext,
                 hasNext, browser, sink, reqPage, emptyAt, waitv, auxv>>

\* end of the suggestions of a term
EmpresiaEndTerm ==
  /\ pc = "m_text"
  /\ idx >= n \/ LimitReached
  /\ pc' = "m_term" /\ scope' = scope + 1
  /\ net' = "none" /\ err' = "none" /\ Step(<<>>)
  /\ UNCHANGED <<cfg, nscopes, pnum, pagev, companies, seen, browser, exc, sink,
                 extracted, reqPage, emptyAt, waitv, auxv>>

\* --------------------------------------------------------------- LibreBOR

\* goto of the homepage (outside any except), delay, challenge wait
LibreborHome ==
  /\ pc = "l_home"
  /\ net' = "home"
  /\ \E r \in {"raise", "challenge", "ok"} :
       /\ err' = Failure(r) /\ Step(HomeOps(r))
       /\ exc' = (r = "raise")
       /\ pc' = IF r = "ok" THEN "l_page" ELSE "finally"
  /\ UNCHANGED <<cfg, nscopes, scope, pnum, pagev, companies, seen, browser, sink,
                 extracted, reqPage, emptyAt, waitv, auxv>>

\* `while True:` limit check, delay, goto of the API page, challenge wait,
\* json.loads of the body, or the link list of the HTML fallback
LibreborPage ==
  /\ pc = "l_page"
  /\ IF LimitReached
       THEN /\ pc' = "finally"
            /\ net' = "none" /\ err' = "none" /\ Step(<<>>)
            /\ UNCHANGED <<n, idx, mode, listNext, hasNext, exc, reqPage, emptyAt>>
       ELSE /\ net' = "page"
            /\ reqPage' = pnum
            /\ \E r \in {"raise", "challenge", "json", "notdict", "html"} :
                 /\ err' = Failure(r) /\ Step(ApiOps)
                 /\ CASE r \in {"raise", "challenge"} ->
                        /\ pc' = "finally"
                        /\ UNCHANGED <<n, idx, mode, listNext, hasNext, exc, emptyAt>>
                   [] r = "notdict" ->
                        \* the body parses to a value without .get
                        /\ pc' = "finally" /\ exc' = TRUE
                        /\ UNCHANGED <<n, idx, mode, listNext, hasNext, emptyAt>>
                   [] r \in {"json", "html"} ->
                        \E k \in 0..MaxItems, ln \in BOOLEAN :
                          /\ mode' = r /\ n' = k /\ idx' = 0
                          /\ listNext' = ln /\ hasNext' = ln
                          /\ emptyAt' = IF k = 0 THEN pnum ELSE emptyAt
                          /\ pc' = IF NoItems(k) THEN "finally"
                                   ELSE IF r = "json" THEN "l_item" ELSE "l_link"
                          /\ exc' = exc
  /\ UNCHANGED <<cfg, nscopes, scope, pnum, slugs, new, cur, companies, seen,
                 browser, sink, extracted, waitv, auxv>>

\* one iteration of `for item in results:`
LibreborItem ==
  /\ pc = "l_item"
  /\ idx < n /\ ~LimitReached
  /\ net' = "none" /\ err' = "none" /\ Step(<<>>)
  /\ idx' = idx + 1
  /\ \/ \* empty name: continue
        UNCHANGED <<companies, extracted>>
     \/ \E k \in Servable :
          /\ extracted' = extracted \cup {k}
          /\ companies' = Append(companies, k)
  /\ UNCHANGED <<cfg, pc, nscopes, scope, pnum, n, slugs, new, mode, cur, listNext,
                 hasNext, seen, browser, exc, sink, reqPage, emptyAt, waitv, auxv>>

\* one iteration of `for link in links:` of the HTML fallback: delay, goto of
\* the company page, challenge wait, h1, append
LibreborLink ==
  /\ pc = "l_link"
  /\ idx < n /\ ~LimitReached
  /\ net' = "detail"
  /\ idx' = idx + 1
  /\ \/ \* goto raises, challenge not resolved, no h1 or empty name: continue
        \E r \in {"raise", "challenge", "noname"} :
          /\ err' = Failure(r) /\ Step(ApiOps)
          /\ UNCHANGED <<companies, extracted>>
     \/ \E k \in Servable :
          /\ err' = "none" /\ Step(ApiOps)
          /\ extracted' = extracted \cup {k}
          /\ companies' = Append(companies, k)
  /\ UNCHANGED <<cfg, pc, nscopes, scope, pnum, n, slugs, new, mode, cur, listNext,
                 hasNext, seen, browser, exc, sink, reqPage, emptyAt, waitv, auxv>>

\* end of the results loop: `if not data.get("next"): break`, `pnum += 1`
LibreborEndJson ==
  /\ pc = "l_item"
  /\ idx >= n \/ LimitReached
  /\ IF ~hasNext
       THEN pc' = "finally" /\ pnum' = pnum
       ELSE pc' = "l_page" /\ pnum' = NextPnum(pnum)
  /\ net' = "none" /\ err' = "none" /\ Step(<<>>)
  /\ UNCHANGED <<cfg, nscopes, scope, pagev, companies, seen, browser, exc, sink,
                 extracted, reqPage, emptyAt, waitv, auxv>>

\* end of the fallback loop: `pnum += 1`, `continue`
LibreborEndHtml ==
  /\ pc = "l_link"
  /\ idx >= n \/ LimitReached
  /\ pc' = "l_page" /\ pnum' = NextPnum(pnum)
  /\ net' = "none" /\ err' = "none" /\ Step(<<>>)
  /\ UNCHANGED <<cfg, nscopes, scope, pagev, companies, seen, browser, exc, sink,
                 extracted, reqPage, emptyAt, waitv, auxv>>

\* ----------------------------------------------------- wait_for_challenge

ChallengeState == {"CHALLENGED", "CLEAR"}

\* readings a call can make: the initial check and one per poll tick
NumReadings == (MaxTimeout + PollInterval - 1) \div PollInterval + 1

\* has_challenge(content) of the i-th reading of page.content(), i = 0, 1, ...
Reading(i) == wseq[i + 1]

\* `while elapsed < timeout:`
WaitLoopCondEarly(e, t) == e + PollInterval < t
WaitLoopCondInverted(e, t) == e > t
WaitLoopCond(e, t) == e < t

InitWait ==
  /\ portal = "europages" /\ limit = 0 /\ details = FALSE
  /\ pc = "wait"
  /\ RunIdle
  /\ wpc = "check"
  /\ wseq \in [1..NumReadings -> ChallengeState]
  /\ wtimeout \in 0..MaxTimeout
  /\ elapsed = 0 /\ ticks = 0 /\ wres = "none"
  /\ AuxIdle

\* `content = await page.content()`, `if not has_challenge(content): return True`
WaitCheck ==
  /\ wpc = "check"
  /\ IF Reading(0) = "CLEAR"
       THEN wpc' = "done" /\ wres' = "success"
       ELSE wpc' = "loop" /\ wres' = wres
  /\ elapsed' = 0
  /\ UNCHANGED <<cfg, pc, nscopes, scope, pnum, pagev, companies, seen, browser,
                 exc, sink, net, err, extracted, reqPage, emptyAt,
                 wseq, wtimeout, ticks, auxv, pacev>>

\* one pass of the loop: sleep(5), `elapsed += 5`, re-read, return True if clear
WaitTick ==
  /\ wpc = "loop"
  /\ WaitLoopCond(elapsed, wtimeout)
  /\ ticks' = ticks + 1
  /\ elapsed' = elapsed + PollInterval
  /\ IF Reading(ticks + 1) = "CLEAR"
       THEN wpc' = "done" /\ wres' = "success"
       ELSE wpc' = "loop" /\ wres' = wres
  /\ UNCHANGED <<cfg, pc, nscopes, scope, pnum, pagev, companies, seen, browser,
                 exc, sink, net, err, extracted, reqPage, emptyAt,
                 wseq, wtimeout, auxv, pacev>>

\* the loop condition fails: `return False`
WaitTimeout ==
  /\ wpc = "loop"
  /\ ~WaitLoopCond(elapsed, wtimeout)
  /\ wpc' = "done" /\ wres' = "failure"
  /\ UNCHANGED <<cfg, pc, nscopes, scope, pnum, pagev, companies, seen, browser,
                 exc, sink, net, err, extracted, reqPage, emptyAt,
                 wseq, wtimeout, elapsed, ticks, auxv, pacev>>

WaitNext == WaitCheck \/ WaitTick \/ WaitTimeout

WaitSpec == InitWait /\ [][WaitNext]_vars

\* ------------------------------------------------------------ _cffi_fetch

\* status codes a response can carry
Statuses == {200, 429, 500}

\* responses the server has ready: one more than the largest attempt cap
NumResponses == MaxRetries + 1

\* status of the i-th response; the server goes on answering like the last one
Response(i) == fseq[IF i <= NumResponses THEN i ELSE NumResponses]

\* `for attempt in range(max_retries):`
FetchLoopCond(a, max) == a < max

\* the loop variable of the next pass
NextAttemptStuck(a) == a
NextAttempt(a) == a + 1

\* `if resp.status_code == 429 and attempt < max_retries - 1:`
FetchRetry(status, a, max) == status = 429 /\ a < max - 1

\* `wait = 30 * (2 ** attempt)`
BackoffProduct(a) == BackoffBase * (2 * a)
Backoff(a) == BackoffBase * 2^a

InitFetch ==
  /\ Parked
  /\ WaitIdle
  /\ ChalIdle
  /\ ItemIdle
  /\ ScriptIdle
  /\ DelayIdle
  /\ RecordIdle
  /\ PhoneIdle
  /\ fpc = "loop"
  /\ fseq \in [1..NumResponses -> Statuses]
  /\ fmax \in 1..MaxRetries
  /\ attempt = 0 /\ nreq = 0 /\ fwaits = <<>> /\ fres = 0

\* one pass of the loop: the request, then either the backoff sleep and
\* `continue` or `return resp`; when range() is used up after a `continue`
\* the function returns the last response (the `return resp` after the loop)
FetchRequest ==
  /\ fpc = "loop"
  /\ FetchLoopCond(attempt, fmax)
  /\ nreq' = nreq + 1
  /\ IF FetchRetry(Response(nreq + 1), attempt, fmax)
       THEN /\ fwaits' = Append(fwaits, Backoff(attempt))
            /\ attempt' = NextAttempt(attempt)
            /\ IF FetchLoopCond(attempt', fmax)
                 THEN fpc' = "loop" /\ fres' = fres
                 ELSE fpc' = "done" /\ fres' = nreq + 1
       ELSE /\ fpc' = "done" /\ fres' = nreq + 1
            /\ UNCHANGED <<fwaits, attempt>>
  /\ UNCHANGED <<cfg, pc, nscopes, scope, pnum, pagev, companies, seen, browser,
                 exc, sink, net, err, extracted, reqPage, emptyAt, waitv,
                 fseq, fmax, pacev, delayv, recv, phonev, scriptv, itemv, chalv>>

FetchNext == FetchRequest

FetchSpec == InitFetch /\ [][FetchNext]_vars

\* ------------------------------------------------------------ delays

\* values --delay-min and --delay-max are given, in whole seconds
DelayArgs == 1..MaxDelayArg

\* the bounds the portal routines hand to human_delay explicitly
ExplicitBounds == {<<1, 2>>, <<1, 3>>, <<2, 4>>, <<3, 5>>}

\* the module is loaded: MIN_DELAY and MAX_DELAY hold their literals and the
\* `def human_delay(min_s=MIN_DELAY, max_s=MAX_DELAY)` statement has evaluated
\* its defaults; main has parsed its arguments
InitDelay ==
  /\ Parked
  /\ WaitIdle
  /\ ChalIdle
  /\ ItemIdle
  /\ ScriptIdle
  /\ FetchIdle
  /\ RecordIdle
  /\ PhoneIdle
  /\ dpc = "main"
  /\ argmin \in DelayArgs /\ argmax \in DelayArgs /\ argmin <= argmax
  /\ gmin = DefaultMinDelay /\ gmax = DefaultMaxDelay
  /\ defmin = gmin /\ defmax = gmax
  /\ lastKind = "none" /\ lastWait = 0

\* `global MIN_DELAY, MAX_DELAY; MIN_DELAY = args.delay_min; ...`
DelayConfigure ==
  /\ dpc = "main"
  /\ gmin' = argmin /\ gmax' = argmax
  /\ dpc' = "run"
  /\ UNCHANGED <<argmin, argmax, defmin, defmax, lastKind, lastWait>>
  /\ UNCHANGED <<cfg, pc, nscopes, scope, pnum, pagev, companies, seen, browser,
                 exc, sink, net, err, extracted, reqPage, emptyAt, waitv,
                 fetchv, pacev, recv, phonev, scriptv, itemv, chalv>>

\* `await human_delay()`: random.uniform(min_s, max_s) with the defaults
DelayHuman ==
  /\ dpc = "run"
  /\ lastWait' \in defmin..defmax
  /\ lastKind' = "default"
  /\ UNCHANGED <<dpc, argmin, argmax, gmin, gmax, defmin, defmax>>
  /\ UNCHANGED <<cfg, pc, nscopes, scope, pnum, pagev, companies, seen, browser,
                 exc, sink, net, err, extracted, reqPage, emptyAt, waitv,
                 fetchv, pacev, recv, phonev, scriptv, itemv, chalv>>

\* `await human_delay(a, b)`
DelayHumanBounds ==
  /\ dpc = "run"
  /\ \E b \in ExplicitBounds : lastWait' \in b[1]..b[2]
  /\ lastKind' = "explicit"
  /\ UNCHANGED <<dpc, argmin, argmax, gmin, gmax, defmin, defmax>>
  /\ UNCHANGED <<cfg, pc, nscopes, scope, pnum, pagev, companies, seen, browser,
                 exc, sink, net, err, extracted, reqPage, emptyAt, waitv,
                 fetchv, pacev, recv, phonev, scriptv, itemv, chalv>>

\* Empresite's `await asyncio.sleep(random.uniform(MIN_DELAY, MAX_DELAY))`
DelayInline ==
  /\ dpc = "run"
  /\ lastWait' \in gmin..gmax
  /\ lastKind' = "inline"
  /\ UNCHANGED <<dpc, argmin, argmax, gmin, gmax, defmin, defmax>>
  /\ UNCHANGED <<cfg, pc, nscopes, scope, pnum, pagev, companies, seen, browser,
                 exc, sink, net, err, extracted, reqPage, emptyAt, waitv,
                 fetchv, pacev, recv, phonev, scriptv, itemv, chalv>>

DelayNext == DelayConfigure \/ DelayHuman \/ DelayHumanBounds \/ DelayInline

DelaySpec == InitDelay /\ [][DelayNext]_vars

\* ------------------------------------------------------------ records

\* strings are sequences of characters
Whitespace == {" "}

\* str.upper(), character by character
UpperChar(c) ==
  CASE c = "a" -> "A" [] c = "b" -> "B" [] c = "e" -> "E"
    [] c = "o" -> "O" [] c = "r" -> "R" [] c = "s" -> "S"
    [] OTHER -> c

\* str.upper()
UpperAsIs(s) == s
Upper(s) == [i \in 1..Len(s) |-> UpperChar(s[i])]

\* str.strip()
RECURSIVE StripLeft(_)
StripLeft(s) ==
  IF s # <<>> /\ Head(s) \in Whitespace THEN StripLeft(Tail(s)) ELSE s

RECURSIVE StripRight(_)
StripRight(s) ==
  IF s # <<>> /\ s[Len(s)] \in Whitespace
    THEN StripRight(SubSeq(s, 1, Len(s) - 1))
    ELSE s

Strip(s) == StripRight(StripLeft(s))

\* str.startswith(p)
StartsWith(s, p) == Len(s) >= Len(p) /\ SubSeq(s, 1, Len(p)) = p

\* str.replace("-", " ")
Hyphens(s) == [i \in 1..Len(s) |-> IF s[i] = "-" THEN " " ELSE s[i]]

\* the literal "SOBRE "
Sobre == <<"S", "O", "B", "R", "E", " ">>

\* a value that is not the empty string
Lit == <<"x">>

\* name texts a page can carry: an optional "Sobre " in some casing, then a
\* short text of letters, spaces and hyphens
NameChars == {"a", "A", " ", "-"}
NameBodies == UNION {[1..k -> NameChars] : k \in 0..MaxNameLen}
NamePrefixes ==
  {<<>>, Sobre, <<"S", "o", "b", "r", "e", " ">>, <<"s", "o", "b", "r", "e", " ">>}
RawNames == {pre \o b : pre \in NamePrefixes, b \in NameBodies}

\* texts of the second element a path falls back on
AltNames == {<<>>, <<"a">>, <<"s", "o", "b", "r", "e", " ", "a">>}

\* the extraction paths: Empresite card, PaginasAmarillas listing, Einforma
\* table row, Einforma link fallback, Europages detail page, Empresia company
\* page, LibreBOR HTML company page, LibreBOR JSON item
Paths == {"card", "listing", "row", "link", "detail", "body", "h1", "json"}

\* `name = (...).strip()` of a card, listing, row, h1 or JSON item
PlainName(raw) == Strip(raw)

\* `raw = name_part.group(1).replace("-", " ").strip()`
LinkName(raw) == Strip(Hyphens(raw))

\* Europages: strip, then drop a leading "SOBRE " found in the upper-cased text
HeadingName(raw) ==
  LET r == Strip(raw)
  IN IF StartsWith(Upper(r), Sobre) THEN Strip(SubSeq(r, 7, Len(r))) ELSE r

\* `for sel in ["h1", "h2"]:` the first heading that leaves a name
DetailName(h1, h2) ==
  IF HeadingName(h1) # <<>> THEN HeadingName(h1) ELSE HeadingName(h2)

\* Empresia: the "Datos de ..." match, else the h1
BodyName(datos, h1) == IF Strip(datos) # <<>> THEN Strip(datos) ELSE Strip(h1)

\* the name a path takes from the page; <<>> when it finds none
NameOf(path, raw, alt) ==
  CASE path = "link" -> LinkName(raw)
    [] path = "detail" -> DetailName(raw, alt)
    [] path = "body" -> BodyName(raw, alt)
    [] OTHER -> PlainName(raw)

\* the fields besides legal_name and source_portal
OptFields == {"region", "address", "summary", "source_url"}

\* fields the path's dict always has
Must(path) ==
  {"region"} \cup
  (CASE path = "card" -> {"address", "summary", "source_url"}
     [] path \in {"link", "detail", "body", "h1"} -> {"source_url"}
     [] OTHER -> {})

\* values the path can give a field
May(path, f) ==
  CASE f = "region" -> {<<>>, Lit}
    [] f = "source_url" -> IF path = "card" THEN {<<>>, Lit}
                           ELSE IF path = "listing" THEN {} ELSE {Lit}
    [] f = "address" -> IF path \in {"card", "listing"} THEN {<<>>, Lit}
                        ELSE IF path \in {"detail", "body"} THEN {Lit} ELSE {}
    [] f = "summary" -> IF path \in {"card", "body"} THEN {<<>>, Lit}
                        ELSE IF path = "detail" THEN {Lit} ELSE {}

\* the dicts a path can build besides the two fixed fields
Extras(path) ==
  {e \in UNION {[D -> {<<>>, Lit}] : D \in SUBSET OptFields} :
     /\ Must(path) \subseteq DOMAIN e
     /\ \A f \in DOMAIN e : e[f] \in May(path, f)}

\* `if v` of main's dict comprehension
TruthyAny(v) == TRUE
Truthy(v) == v # <<>>

\* `{k: v for k, v in company.items() if v}`
Filtered(c) == [k \in {f \in DOMAIN c : Truthy(c[f])} |-> c[k]]

InitRecord ==
  /\ Parked
  /\ WaitIdle
  /\ ChalIdle
  /\ ItemIdle
  /\ ScriptIdle
  /\ FetchIdle
  /\ DelayIdle
  /\ PhoneIdle
  /\ rpc = "page"
  /\ rpath \in Paths
  /\ rawName \in RawNames
  /\ company = <<>> /\ written = <<>>

\* the path reads the name and `continue`s without one, else builds the dict
\* with `"legal_name": name.upper()` and appends it
RecordExtract ==
  /\ rpc = "page"
  /\ \E alt \in AltNames, e \in Extras(rpath) :
       LET name == NameOf(rpath, rawName, alt)
       IN IF name = <<>>
            THEN rpc' = "skipped" /\ company' = company
            ELSE /\ rpc' = "built"
                 /\ company' = [legal_name |-> Upper(name), source_portal |-> Lit] @@ e
  /\ UNCHANGED <<rpath, rawName, written>>
  /\ UNCHANGED <<cfg, pc, nscopes, scope, pnum, pagev, companies, seen, browser,
                 exc, sink, net, err, extracted, reqPage, emptyAt, waitv,
                 fetchv, delayv, phonev, pacev, scriptv, itemv, chalv>>

\* main's output loop for one company
RecordWrite ==
  /\ rpc = "built"
  /\ written' = Filtered(company)
  /\ rpc' = "written"
  /\ UNCHANGED <<rpath, rawName, company>>
  /\ UNCHANGED <<cfg, pc, nscopes, scope, pnum, pagev, companies, seen, browser,
                 exc, sink, net, err, extracted, reqPage, emptyAt, waitv,
                 fetchv, delayv, phonev, pacev, scriptv, itemv, chalv>>

RecordNext == RecordExtract \/ RecordWrite

RecordSpec == InitRecord /\ [][RecordNext]_vars

\* ------------------------------------------------------------ phones

Digits == {"0", "1", "2", "3", "4", "5", "6", "7", "8", "9"}

\* the literal "tel:"
Tel == <<"t", "e", "l", ":">>

\* the phone text of the documented example, "tel:+34 93 123 45 67"
ExamplePhone ==
  Tel \o <<"+", "3", "4", " ", "9", "3", " ", "1", "2", "3", " ",
           "4", "5", " ", "6", "7">>

\* phone texts a page can carry: an optional "tel:", then a short text of
\* plus signs, digits and spaces; and the documented example
PhoneChars == {"+", "1", " "}
PhoneBodies == UNION {[1..k -> PhoneChars] : k \in 0..MaxPhoneLen}
RawPhones == {pre \o b : pre \in {<<>>, Tel}, b \in PhoneBodies} \cup {ExamplePhone}

\* str.replace("tel:", "")
RECURSIVE RemoveTel(_)
RemoveTel(s) ==
  IF s = <<>> THEN <<>>
  ELSE IF StartsWith(s, Tel) THEN RemoveTel(SubSeq(s, Len(Tel) + 1, Len(s)))
  ELSE <<Head(s)>> \o RemoveTel(Tail(s))

\* the characters `[^\d+]` does not match
KeptChar(c) == c \in Digits \cup {"+"}

\* `re.sub(r"[^\d+]", "", href.replace("tel:", ""))`
Normalize(s) == SelectSeq(RemoveTel(s), KeptChar)

\* `if len(phone) >= 9:`
PhoneKept(ph) == Len(ph) >= MinPhoneLen

InitPhone ==
  /\ Parked
  /\ WaitIdle
  /\ ChalIdle
  /\ ItemIdle
  /\ ScriptIdle
  /\ FetchIdle
  /\ DelayIdle
  /\ RecordIdle
  /\ ppc = "raw"
  /\ rawPhone \in RawPhones
  /\ phone = <<>> /\ hasPhone = FALSE

\* the phone element was found: normalize, and set the field when long enough
PhoneNormalize ==
  /\ ppc = "raw"
  /\ phone' = Normalize(rawPhone)
  /\ hasPhone' = PhoneKept(phone')
  /\ ppc' = "done"
  /\ UNCHANGED rawPhone
  /\ UNCHANGED <<cfg, pc, nscopes, scope, pnum, pagev, companies, seen, browser,
                 exc, sink, net, err, extracted, reqPage, emptyAt, waitv,
                 fetchv, delayv, recv, pacev, scriptv, itemv, chalv>>

PhoneNext == PhoneNormalize

PhoneSpec == InitPhone /\ [][PhoneNext]_vars

\* ---------------------------------------------------------------------------
\* One scope of a run against a scripted server.  The server holds the pages
\* of the scope; a page lists the keys of its named items in order, says
\* whether it carries a "next" link and whether it holds at least
\* EmpresitePageSize elements (named or not).  A page past the last one is
\* empty.  Empresite is run with --city (one scope), PaginasAmarillas on its
\* first category.
ScriptPortals == {"empresite", "paginasamarillas"}

ScriptItemLists == UNION {[1..m -> 1..ScriptKeys] : m \in 0..ScriptItems}

ScriptPage == [items : ScriptItemLists, next : BOOLEAN, full : BOOLEAN]

RECURSIVE Flat(_, _)
Flat(sc, i) == IF i > Len(sc) THEN <<>> ELSE sc[i].items \o Flat(sc, i + 1)

\* companies are numbered in order of first appearance on the server
FirstAppearance(l) ==
  \A i \in 1..Len(l) : \A k \in 1..(l[i] - 1) : \E j \in 1..(i - 1) : l[j] = k

Scripts == {sc \in [1..ScriptPages -> ScriptPage] : FirstAppearance(Flat(sc, 1))}

ScriptLimitReached == slimit # 0 /\ Len(srecs) >= slimit

\* the page the server answers with: its items, and whether it has elements
Served == IF spnum <= Len(script) THEN script[spnum] ELSE [items |-> <<>>, next |-> FALSE, full |-> FALSE]

HasElements(pg) == pg.items # <<>> \/ pg.full

InitScript ==
  /\ Parked
  /\ WaitIdle
  /\ ChalIdle
  /\ ItemIdle
  /\ FetchIdle /\ DelayIdle /\ RecordIdle /\ PhoneIdle
  /\ sportal \in ScriptPortals
  /\ slimit \in 0..ScriptLimit
  /\ script \in Scripts
  /\ spc = "page" /\ spnum = 1 /\ sidx = 0 /\ snew = 0
  /\ srecs = <<>> /\ sseen = {} /\ sreq = <<>>

\* top of the while loop: limit check, request, empty page ends the scope
ScriptRequest ==
  /\ spc = "page"
  /\ IF ScriptLimitReached
       THEN spc' = "ended" /\ UNCHANGED sreq
       ELSE /\ sreq' = Append(sreq, spnum)
            /\ spc' = IF HasElements(Served) THEN "item" ELSE "ended"
  /\ sidx' = 0 /\ snew' = 0
  /\ UNCHANGED <<sportal, slimit, script, spnum, srecs, sseen>>
  /\ UNCHANGED <<cfg, pc, nscopes, scope, pnum, pagev, companies, seen, browser, exc, sink, net, err,
               extracted, reqPage, emptyAt, waitv, pacev, fetchv, delayv, recv, phonev, itemv, chalv>>

\* PaginasAmarillas drops a name already in seen
ScriptDedup(k) == sportal = "paginasamarillas" /\ k \in sseen

\* one named element of the page
ScriptItem ==
  /\ spc = "item"
  /\ sidx < Len(Served.items) /\ ~ScriptLimitReached
  /\ sidx' = sidx + 1
  /\ LET k == Served.items[sidx + 1] IN
       IF ScriptDedup(k)
         THEN UNCHANGED <<srecs, sseen, snew>>
         ELSE /\ srecs' = Append(srecs, k)
              /\ sseen' = IF sportal = "paginasamarillas" THEN sseen \cup {k} ELSE sseen
              /\ snew' = snew + 1
  /\ UNCHANGED <<sportal, slimit, script, spc, spnum, sreq>>
  /\ UNCHANGED <<cfg, pc, nscopes, scope, pnum, pagev, companies, seen, browser, exc, sink, net, err,
               extracted, reqPage, emptyAt, waitv, pacev, fetchv, delayv, recv, phonev, itemv, chalv>>

\* whether the loop goes on to the next page of the scope
ScriptContinues ==
  IF sportal = "empresite"
    THEN Served.full /\ spnum < EmpresiteMaxPage
    ELSE snew # 0 /\ Served.next /\ spnum < PaMaxPage

\* after the last element (or the limit): end the scope or take the next page
ScriptEndPage ==
  /\ spc = "item"
  /\ (sidx >= Len(Served.items) \/ ScriptLimitReached)
  /\ IF ScriptContinues
       THEN spc' = "page" /\ spnum' = spnum + 1
       ELSE spc' = "ended" /\ spnum' = spnum
  /\ UNCHANGED <<sportal, slimit, script, sidx, snew, srecs, sseen, sreq>>
  /\ UNCHANGED <<cfg, pc, nscopes, scope, pnum, pagev, companies, seen, browser, exc, sink, net, err,
               extracted, reqPage, emptyAt, waitv, pacev, fetchv, delayv, recv, phonev, itemv, chalv>>

ScriptNext == ScriptRequest \/ ScriptItem \/ ScriptEndPage

ScriptSpec == InitScript /\ [][ScriptNext]_vars

\* ---------------------------------------------------------------------------
\* The item loop of one listing page, by the shape of each element:
\*   "ok"        a name element with text, a link with href
\*   "noname"    no name element (no "name" key in LibreBOR's JSON)
\*   "emptyname" a name element whose text strips to ""
\*   "nohref"    a named element whose link carries no href (no "url" key)
\*   "nullname"  a JSON item whose "name" is null
\*   "raises"    an element whose lookup or text read raises
ItemPortals == {"empresite", "paginasamarillas", "einforma", "librebor"}

\* Empresite parses a fetched document (no lookup fails on its own); only
\* LibreBOR's items are JSON values
Shapes(p) ==
  {"ok", "noname", "emptyname", "nohref"}
    \cup (IF p = "librebor" THEN {"nullname"} ELSE {})
    \cup (IF p \in {"paginasamarillas", "einforma"} THEN {"raises"} ELSE {})

ShapeLists(p) == UNION {[1..m -> Shapes(p)] : m \in 1..MaxPageItems}

\* what the loop body does with an element: "skip" is `continue`, "record" is
\* the append, "raise" an exception that no except clause of the loop catches
Outcome(p, sh) ==
  CASE sh = "ok" -> "record"
    [] sh \in {"noname", "emptyname"} -> "skip"
    [] sh = "nohref" -> IF p = "empresite" THEN "raise" ELSE "record"
    [] sh = "nullname" -> "raise"
    [] sh = "raises" -> "raise"

InitItem ==
  /\ Parked
  /\ WaitIdle
  /\ ChalIdle
  /\ FetchIdle /\ DelayIdle /\ RecordIdle /\ PhoneIdle /\ ScriptIdle
  /\ iportal \in ItemPortals
  /\ ishapes \in ShapeLists(iportal)
  /\ ipc = "item" /\ iidx = 0 /\ irecs = <<>>

\* one iteration of the loop over the page's elements
ItemBody ==
  /\ ipc = "item" /\ iidx < Len(ishapes)
  /\ iidx' = iidx + 1
  /\ LET o == Outcome(iportal, ishapes[iidx + 1]) IN
       /\ ipc' = IF o = "raise" THEN "raised" ELSE "item"
       /\ irecs' = IF o = "record" THEN Append(irecs, iidx + 1) ELSE irecs
  /\ UNCHANGED <<iportal, ishapes>>
  /\ UNCHANGED <<cfg, pc, nscopes, scope, pnum, pagev, companies, seen, browser, exc, sink, net, err,
                 extracted, reqPage, emptyAt, waitv, pacev, fetchv, delayv, recv, phonev, scriptv, chalv>>

\* the loop has run over every element
ItemEnd ==
  /\ ipc = "item" /\ iidx >= Len(ishapes)
  /\ ipc' = "ended"
  /\ UNCHANGED <<iportal, ishapes, iidx, irecs>>
  /\ UNCHANGED <<cfg, pc, nscopes, scope, pnum, pagev, companies, seen, browser, exc, sink, net, err,
                 extracted, reqPage, emptyAt, waitv, pacev, fetchv, delayv, recv, phonev, scriptv, chalv>>

ItemNext == ItemBody \/ ItemEnd

ItemSpec == InitItem /\ [][ItemNext]_vars

\* ---------------------------------------------------------------------------
\* has_challenge(content)

LowerLetters ==
  <<"a", "b", "c", "d", "e", "f", "g", "h", "i", "j", "k", "l", "m", "n",
    "o", "p", "q", "r", "s", "t", "u", "v", "w", "x", "y", "z">>
UpperLetters ==
  <<"A", "B", "C", "D", "E", "F", "G", "H", "I", "J", "K", "L", "M", "N",
    "O", "P", "Q", "R", "S", "T", "U", "V", "W", "X", "Y", "Z">>

\* str.lower(), character by character
LowerChar(c) ==
  IF \E i \in 1..Len(UpperLetters) : UpperLetters[i] = c
    THEN LowerLetters[CHOOSE i \in 1..Len(UpperLetters) : UpperLetters[i] = c]
    ELSE c

\* str.lower()
LowerAsIs(s) == s
Lower(s) == [i \in 1..Len(s) |-> LowerChar(s[i])]

\* `sub in s`
Contains(s, sub) ==
  \E off \in 0..(Len(s) - Len(sub)) : SubSeq(s, off + 1, off + Len(sub)) = sub

\* `indicators`
Indicators == {
    <<"c", "h", "a", "l", "l", "e", "n", "g", "e", "-", "p", "l", "a", "t",
      "f", "o", "r", "m">>,
    <<"j", "u", "s", "t", " ", "a", " ", "m", "o", "m", "e", "n", "t">>,
    <<"c", "f", "-", "c", "h", "a", "l", "l", "e", "n", "g", "e">>,
    <<"c", "f", "_", "c", "h", "l", "_", "o", "p", "t">>,
    <<"i", "n", "c", "a", "p", "s", "u", "l", "a">>,
    <<"_", "i", "n", "c", "a", "p", "s", "u", "l", "a", "_", "r", "e", "s",
      "o", "u", "r", "c", "e">>,
    <<"i", "n", "c", "i", "d", "e", "n", "t", "_", "i", "d">>,
    <<"h", "u", "m", "a", "n", " ", "v", "e", "r", "i", "f", "i", "c", "a",
      "t", "i", "o", "n">>,
    <<"a", "w", "s", "w", "a", "f">>,
    <<"g", "-", "r", "e", "c", "a", "p", "t", "c", "h", "a", "-", "r", "e",
      "s", "p", "o", "n", "s", "e">>,
    <<"c", "l", "a", "s", "s", "=", "\"", "g", "-", "r", "e", "c", "a",
      "p", "t", "c", "h", "a", "\"">>,
    <<"c", "a", "p", "t", "c", "h", "a", "-", "d", "e", "l", "i", "v", "e",
      "r", "y">>,
    <<"h", "c", "a", "p", "t", "c", "h", "a", "-", "b", "o", "x">>,
    <<"c", "a", "p", "a", "d", "o", "_", "r", "o", "b", "o", "t", "s">>,
    <<"c", "o", "n", "t", "r", "o", "l", " ", "r", "o", "b", "o", "t", "s">> }

\* `any(i in lower for i in indicators)`
HasChallenge(c) == \E i \in Indicators : Contains(Lower(c), i)

\* page bodies: a fingerprint in some casing, or a text one character away
\* from one, between short runs of other characters
UpperCased(s) ==
  [i \in 1..Len(s) |->
     IF \E k \in 1..Len(LowerLetters) : LowerLetters[k] = s[i]
       THEN UpperLetters[CHOOSE k \in 1..Len(LowerLetters) : LowerLetters[k] = s[i]]
       ELSE s[i]]

Capitalised(s) == SubSeq(UpperCased(s), 1, 2) \o SubSeq(s, 3, Len(s))

Variants(i) ==
  { i, UpperCased(i), Capitalised(i),
    SubSeq(i, 1, Len(i) - 1), SubSeq(i, 2, Len(i)),
    <<Head(i), "~">> \o Tail(i), <<>> }

PadChars == {"x", "A", "<"}

Pads == UNION {[1..k -> PadChars] : k \in 0..MaxPad}

Bodies == {pre \o v \o post : pre \in Pads, post \in Pads, v \in UNION {Variants(i) : i \in Indicators}}

InitChal ==
  /\ Parked
  /\ WaitIdle
  /\ FetchIdle /\ DelayIdle /\ RecordIdle /\ PhoneIdle /\ ScriptIdle /\ ItemIdle
  /\ hpc = "call"
  /\ content \in Bodies
  /\ hres = FALSE

ChalCall ==
  /\ hpc = "call"
  /\ hres' = HasChallenge(content)
  /\ hpc' = "returned"
  /\ UNCHANGED content
  /\ UNCHANGED <<cfg, pc, nscopes, scope, pnum, pagev, companies, seen, browser, exc, sink, net, err,
                 extracted, reqPage, emptyAt, waitv, pacev, fetchv, delayv, recv, phonev, scriptv, itemv>>

ChalNext == ChalCall

ChalSpec == InitChal /\ [][ChalNext]_vars

Next ==
  \/ LaunchBrowser \/ CloseContext \/ StopDriver
  \/ MainWrite \/ MainAbort \/ Interrupt
  \/ EmpresiteCityGiven \/ EmpresiteFetchCities \/ EmpresiteNextCity
  \/ EmpresitePage \/ EmpresiteCard \/ EmpresiteDetail \/ EmpresiteEndPage
  \/ EuropagesNextTerm \/ EuropagesPage \/ EuropagesSlug \/ EuropagesEndPage
  \/ PaHome \/ PaNextCat \/ PaPage \/ PaItem \/ PaEndPage
  \/ EinformaHome \/ EinformaListing \/ EinformaPage \/ EinformaItem \/ EinformaEndPage
  \/ EmpresiaHome \/ EmpresiaTerm \/ EmpresiaText \/ EmpresiaEndTerm
  \/ LibreborHome \/ LibreborPage \/ LibreborItem \/ LibreborLink
  \/ LibreborEndJson \/ LibreborEndHtml

Spec == Init /\ [][Next]_vars

\* every enabled step is eventually taken: the event loop keeps running the
\* single task of the run until it returns
FairSpec == Spec /\ WF_vars(Next)


\* ================================================================ claims

\* number of records of the run that carry key k
Count(k) == Cardinality({i \in 1..Len(companies) : companies[i] = k})

\* the page-loop heads of the paginated portals
PageHeads == {"e_page", "u_page", "p_page", "i_page", "l_page"}

\* C1: with a limit L > 0 a run never holds, returns or writes more than L
\* records, and a step taken once L records are held issues no homepage,
\* listing-page or detail-page request.
C1_ItemLimit ==
  [][ /\ (limit' > 0 => Len(companies') <= limit' /\ Len(sink') <= limit')
      /\ (limit > 0 /\ Len(companies) >= limit => net' = "none") ]_vars

\* C1 witness: the limit is met while the server still offers a further page,
\* and the run is back at the head of the page loop.
C1_Witness ==
  /\ limit > 0 /\ Len(companies) = limit
  /\ pc \in PageHeads /\ pnum > 1

\* C2: of the extracted items that share a key, never two yield a record, and
\* when the run has returned exactly one has.
C2_DedupExactlyOne ==
  \A k \in extracted :
    /\ Count(k) <= 1
    /\ (pc = "done" /\ ~exc => Count(k) = 1)

\* C3: a step whose page request (homepage, listing, search or detail page)
\* met a transport failure lets no exception leave the routine.
C3_TransportNonFatal == [][err' = "transport" => ~exc']_vars

\* C4: when a run has ended with an exception or an interrupt, every record
\* accepted before it has been written to the output.
C4_PartialOutput == pc = "done" /\ exc => sink = companies

\* C5: when a browser portal's run has ended, on whatever path, the driver is
\* not left started and the context is not left open.
C5_Released ==
  pc = "done" /\ portal \in BrowserPortals => pw # "started" /\ ctx # "open"

\* C6: a run without item limit eventually ends.
C6_Terminates == (limit = 0) => <>(pc = "done")

\* C7: the number of the listing page requested in a scope never exceeds a
\* fixed ceiling; 40, the largest ceiling of the code, is taken for it.
C7_PageCeiling == reqPage <= EmpresiteMaxPage

\* C8: once page N of a scope has come back with zero items, the last page
\* requested in that scope is N: no page with a greater number is requested.
C8_StopAtEmptyPage == emptyAt # 0 => reqPage <= emptyAt

\* C8 witness: the second or a later page of a scope came back empty and the
\* pagination of the scope has ended there.
C8_Witness ==
  /\ emptyAt >= 2 /\ reqPage = emptyAt
  /\ pc \in {"e_city", "u_term", "p_cat", "finally"}

\* C9: page p+1 of a scope is requested only if the response for page p
\* carried a next affordance.
C9_NextAffordance ==
  [][net' = "page" /\ reqPage >= 1 /\ reqPage' = reqPage + 1 => listNext]_vars

\* C10: if the first CLEAR reading is at index k and 5 * k <= timeout, the
\* call returns success after exactly k sleeps of 5 s.
C10_ClearAfterKTicks ==
  wpc = "done" =>
    \A k \in 0..(NumReadings - 1) :
      /\ Reading(k) = "CLEAR"
      /\ \A j \in 0..(k - 1) : Reading(j) = "CHALLENGED"
      /\ 5 * k <= wtimeout
      => wres = "success" /\ ticks = k /\ elapsed = 5 * k

\* C10 witness: [CHALLENGED, CHALLENGED, CLEAR] has returned success after
\* two ticks.
C10_Witness ==
  /\ wpc = "done" /\ wres = "success" /\ ticks = 2
  /\ Reading(0) = "CHALLENGED" /\ Reading(1) = "CHALLENGED" /\ Reading(2) = "CLEAR"


\* C11: when every reading stays CHALLENGED the call returns failure, for
\* every timeout >= 0, and the time it has waited (5 s per tick, which is
\* what `elapsed` holds) is within one poll interval of the timeout.
C11_TimeoutBound ==
  wpc = "done" /\ (\A i \in 0..(NumReadings - 1) : Reading(i) = "CHALLENGED")
    => /\ wres = "failure"
       /\ elapsed = 5 * ticks
       /\ elapsed - wtimeout \in (0 - 5)..5

\* C11 witness: a timeout that is no multiple of 5 has run out after the
\* ticks it allows.
C11_Witness ==
  /\ wpc = "done" /\ wres = "failure"
  /\ wtimeout = 7 /\ ticks = 2
  /\ \A i \in 0..(NumReadings - 1) : Reading(i) = "CHALLENGED"

C13_AttemptCap ==
  /\ nreq <= fmax
  /\ (fpc = "done" /\ (\A i \in 1..fmax : fseq[i] = 429)
        => nreq = fmax /\ fres = fmax)

\* C13 witness: three 429 responses, then a 200 that is never asked for, with
\* cap 3: the third response has been returned.
C13_Witness ==
  /\ fpc = "done" /\ fmax = 3 /\ nreq = 3 /\ fres = 3
  /\ fseq[1] = 429 /\ fseq[2] = 429 /\ fseq[3] = 429 /\ fseq[4] = 200

\* C14: the i-th wait lasts 30 * 2^(i-1) s and follows a 429 response that was
\* not the last allowed attempt; there is one wait per request but the last;
\* a response that is not 429 is returned at once.
C14_Backoff ==
  /\ \A i \in 1..Len(fwaits) :
       fwaits[i] = 30 * 2^(i - 1) /\ fseq[i] = 429 /\ i < fmax
  /\ Len(fwaits) = (IF fpc = "done" THEN nreq - 1 ELSE nreq)
  /\ \A i \in 1..nreq : fseq[i] # 429 => fpc = "done" /\ fres = i /\ nreq = i

\* C14 witness: two retries have been waited for, 30 s and then 60 s.
C14_Witness == fpc = "done" /\ fwaits = <<30, 60>> /\ fseq[3] = 500 /\ fres = 3


\* C15 as stated: every Empresite fetch that comes back with a non-200 status
\* (rate-limited past the retry cap) ends the current city's pagination, keeps
\* the records and hands over to the next city.
C15_RateLimitedAnyFetch ==
  [][portal = "empresite" /\ err' = "status" =>
       /\ pc' = "e_city" /\ scope' = scope + 1
       /\ companies' = companies /\ ~exc']_vars

\* C15 amended: a city LISTING page that comes back rate-limited past the
\* retry cap ends the current city's pagination without an exception, keeps
\* the records accepted so far and hands over to the next city.
C15_RateLimitedListing ==
  [][portal = "empresite" /\ net' = "page" /\ err' = "status" =>
       /\ pc' = "e_city" /\ scope' = scope + 1
       /\ companies' = companies /\ ~exc']_vars

\* C15 witness: page 2 of the first city came back rate-limited while a record
\* was already held; the run stands at the city loop with the second city next.
C15_Witness ==
  /\ portal = "empresite" /\ net = "page" /\ err = "status"
  /\ reqPage = 2 /\ pc = "e_city" /\ scope = 2 /\ nscopes = 2
  /\ Len(companies) = 1 /\ ~exc


\* the i-th operation of o, run from pacing state p, comes after a Delay
\* Scheduler wait made since the previous network operation, or is the very
\* first request of the session
PacedAt(p, o, i) ==
  LET before == {k \in 1..(i - 1) : o[k] \in NetOps}
  IN IF before = {}
       THEN p \in {"fresh", "delayed"} \/ \E j \in 1..(i - 1) : o[j] = "d"
       ELSE \E j \in 1..(i - 1) : o[j] = "d" /\ \A k \in before : k < j

\* C16 as stated: every network-facing operation but the first request of the
\* session, rate-limit retries included, comes after a Delay Scheduler wait
\* made since the previous network operation.
C16_EveryOpPaced ==
  [][\A i \in 1..Len(ops') : ops'[i] \in NetOps => PacedAt(pace, ops', i)]_vars

\* C16 amended: every page navigation, fetch and click navigation but the
\* first request of the session comes after a Delay Scheduler wait made since
\* the previous network operation; a rate-limit retry comes after the backoff
\* sleep only.
C16_NavigationsPaced ==
  [][\A i \in 1..Len(ops') :
       /\ ops'[i] \in NetOps \ {"retry"} => PacedAt(pace, ops', i)
       /\ ops'[i] = "retry" => ops'[i - 1] = "b"]_vars

\* C16 witness: an Empresia suggestion was handled with a delay before the
\* navigation and another before the click, and its record was appended.
C16_Witness ==
  /\ portal = "empresia" /\ pace = "hot"
  /\ ops = <<"d", "nav", "d", "click">>
  /\ Len(companies) = 1


\* C17: every delay that uses the default bounds (human_delay() without
\* arguments, or Empresite's inline sleep) lasts between the run's
\* --delay-min and --delay-max.
C17_DefaultBoundsConfigured ==
  lastKind \in {"default", "inline"} => argmin <= lastWait /\ lastWait <= argmax


\* the string has no lower-case letter
IsUpper(s) == \A i \in 1..Len(s) : UpperChar(s[i]) = s[i]

\* C18: every record a path appends, and every record written, has a
\* legal_name that is present, non-empty and upper-case.
C18_LegalName ==
  /\ rpc \in {"built", "written"} =>
       /\ "legal_name" \in DOMAIN company
       /\ company.legal_name # <<>> /\ IsUpper(company.legal_name)
  /\ rpc = "written" =>
       /\ "legal_name" \in DOMAIN written
       /\ written.legal_name = company.legal_name

\* C18 witness: a Europages heading "Sobre a-A" was written as "A-A".
C18_Witness ==
  /\ rpc = "written" /\ rpath = "detail"
  /\ rawName = <<"S", "o", "b", "r", "e", " ", "a", "-", "A">>
  /\ written.legal_name = <<"A", "-", "A">>

\* C19: no field of a written record is the empty string, and the written
\* record keeps every non-empty field of the appended one.
C19_NoEmptyField ==
  rpc = "written" =>
    /\ \A f \in DOMAIN written : written[f] # <<>>
    /\ \A f \in DOMAIN company : company[f] # <<>> =>
         f \in DOMAIN written /\ written[f] = company[f]

\* C19 witness: an Empresite card without address and link, with a summary,
\* was written without the two empty fields.
C19_Witness ==
  /\ rpc = "written" /\ rpath = "card"
  /\ company.address = <<>> /\ company.source_url = <<>>
  /\ company.summary = Lit
  /\ DOMAIN written = {"legal_name", "source_portal", "region", "summary"}


\* number of digits in the string
DigitCount(s) == Cardinality({i \in 1..Len(s) : s[i] \in Digits})

\* C20: "tel:+34 93 123 45 67" is normalized to "+34931234567" and kept, and
\* a phone whose normalized form has fewer than 9 digits gives no phone field.
C20_PhoneNormalization ==
  ppc = "done" =>
    /\ rawPhone = ExamplePhone =>
         /\ phone = <<"+", "3", "4", "9", "3", "1", "2", "3", "4", "5", "6", "7">>
         /\ hasPhone
    /\ DigitCount(phone) < 9 => ~hasPhone

\* C21: with limit 5, when page 1 of the scope lists 3 items of which 2 are
\* unique and 1 repeats, and page 2 lists 3 items not seen before and has no
\* next link, the scope ends with exactly 5 records and page requests 1, 2.
ItemSet(l) == {l[i] : i \in 1..Len(l)}

C21_Scenario ==
  /\ slimit = 5 /\ Len(script) = 2
  /\ Len(script[1].items) = 3 /\ Cardinality(ItemSet(script[1].items)) = 2
  /\ script[1].next
  /\ Len(script[2].items) = 3 /\ Cardinality(ItemSet(script[2].items)) = 3
  /\ ItemSet(script[1].items) \cap ItemSet(script[2].items) = {}
  /\ ~script[2].next

C21_FiveRecordsTwoPages ==
  (C21_Scenario /\ spc = "ended") => (Len(srecs) = 5 /\ sreq = <<1, 2>>)

\* the same scenario in PaginasAmarillas alone
C21_PaFiveRecordsTwoPages ==
  (C21_Scenario /\ spc = "ended" /\ sportal = "paginasamarillas")
    => (Len(srecs) = 5 /\ sreq = <<1, 2>>)

C21_PaWitness ==
  (C21_Scenario /\ spc = "ended" /\ sportal = "paginasamarillas"
   /\ Len(srecs) = 5)

\* C22: an element that is malformed or lacks an expected field does not end
\* the item loop: the loop goes on to the next element of the page, and every
\* well-formed element of the page ends up with a record.
Malformed(sh) == sh # "ok"

C22_MalformedItemSkipped ==
  [][(ipc = "item" /\ iidx < Len(ishapes) /\ Malformed(ishapes[iidx + 1]))
       => ipc' = "item"]_vars

\* the part that holds: an element without a name, or with an empty one,
\* is skipped and the loop goes on
C22_NamelessItemSkipped ==
  [][(ipc = "item" /\ iidx < Len(ishapes)
        /\ ishapes[iidx + 1] \in {"noname", "emptyname"})
       => (ipc' = "item" /\ irecs' = irecs)]_vars

C22_NamelessWitness ==
  /\ ipc = "ended" /\ Len(ishapes) = 3
  /\ ishapes[1] = "ok" /\ ishapes[2] = "noname" /\ ishapes[3] = "ok"
  /\ irecs = <<1, 3>>

\* C23: in the multi-scope portals the scopes (cities, search terms,
\* categories) are taken in list order and each at most once: the scope index
\* never moves back, stays put inside a scope and advances by one whenever
\* the run comes back to the head of the scope loop; a scope is started only
\* from the head of the scope loop, and never once the limit is reached.
ScopeHeads == {"e_city", "u_term", "p_cat", "m_term"}

InScope == {"e_page", "e_card", "e_detail", "u_page", "u_slug", "p_page", "p_item", "m_text"}

\* the step that starts a scope: it enters the scope's pages, or (Empresia)
\* issues the scope's search from the head of the loop
ScopeStart == pc \in ScopeHeads /\ (pc' \in InScope \/ net' = "page")

C23_ScopesInOrder ==
  [][ /\ scope' \in {scope, scope + 1}
      /\ (pc' \in InScope => pc \in ScopeHeads \cup InScope)
      /\ (pc \in InScope /\ pc' \in InScope => scope' = scope)
      /\ (pc' \in ScopeHeads /\ (pc \in InScope \/ ScopeStart) => scope' = scope + 1)
      /\ (ScopeStart /\ pc' \in InScope => scope' = scope)
      /\ (ScopeStart => ~(limit # 0 /\ Len(companies) >= limit)) ]_vars

\* C23 witness: the second scope is under way after the first one gave a
\* record and ended, with room left under the limit.
C23_Witness ==
  /\ portal = "europages" /\ pc = "u_slug" /\ scope = 2
  /\ limit = 2 /\ Len(companies) = 1

\* C24: has_challenge returns true exactly for the bodies that hold, at some
\* offset and in whatever casing, one of the fingerprint strings.
SameLetter(a, b) ==
  a = b \/ \E i \in 1..Len(LowerLetters) : {a, b} = {LowerLetters[i], UpperLetters[i]}

OccursAt(body, ind, off) ==
  /\ off + Len(ind) <= Len(body)
  /\ \A j \in 1..Len(ind) : SameLetter(body[off + j], ind[j])

C24_HasChallenge ==
  hpc = "returned" =>
    (hres <=> \E ind \in Indicators : \E off \in 0..Len(content) : OccursAt(content, ind, off))

\* C24 witness: a fingerprint in upper case inside a longer body is reported
C24_Witness ==
  /\ hpc = "returned" /\ hres
  /\ content = <<"x", "A", "W", "S", "W", "A", "F", "<">>

\* C25: Empresite requests page p+1 of a city only when page p held at least
\* 30 cards, p < 40 and the limit is not reached, and a listing page that did
\* not come back with status 200 ends the city; the pages of a scope are
\* requested one after the other from 1, so that a city sees at most 40 page
\* requests, a Europages term at most 10 and a PaginasAmarillas category at
\* most 20.
C25_PageAdvance ==
  [][ /\ (portal = "empresite" /\ net' = "page" /\ reqPage >= 1) =>
            /\ n >= EmpresitePageSize /\ reqPage < EmpresiteMaxPage
            /\ ~(limit # 0 /\ Len(companies) >= limit)
      /\ (pc = "e_page" /\ net' = "page" /\ err' # "none") => pc' = "e_city"
      /\ (portal \in {"empresite", "europages", "paginasamarillas"} /\ net' = "page")
            => reqPage' = reqPage + 1
      /\ (portal' = "empresite" => reqPage' <= EmpresiteMaxPage)
      /\ (portal' = "europages" => reqPage' <= EuropagesMaxPage)
      /\ (portal' = "paginasamarillas" => reqPage' <= PaMaxPage) ]_vars

\* C25 witness: page 40 of a city came back full, under no limit, and the
\* city has ended there.
C25_Witness ==
  /\ portal = "empresite" /\ pc = "e_city" /\ reqPage = EmpresiteMaxPage
  /\ n = EmpresitePageSize /\ limit = 0

\* C26: a Europages search page that adds no slug to the seen set ends the
\* term, and PaginasAmarillas goes on to the next page of a category only
\* when the page just handled added a name to the seen set (new counts the
\* names added since the page was loaded), whatever the next affordance and
\* the page number.
C26_NoNewKeyEndsScope ==
  [][ /\ (pc = "u_page" /\ net' = "page" /\ err' = "none" /\ seen' = seen)
            => pc' = "u_term"
      /\ (pc = "p_page" /\ pc' = "p_item") => new' = 0
      /\ (pc = "p_item" /\ pc' = "p_item")
            => new' - new = Cardinality(seen') - Cardinality(seen)
      /\ (pc = "p_item" /\ pc' # "p_item")
            => (new' = new /\ seen' = seen /\ (new = 0 => pc' # "p_page")) ]_vars

\* C26 witness: page 2 of a category listed only names seen before and had a
\* next link, and the category has ended there.
C26_Witness ==
  /\ portal = "paginasamarillas" /\ pc = "p_cat" /\ reqPage = 2
  /\ n >= 1 /\ idx = n /\ new = 0 /\ listNext /\ hasNext /\ seen # {}

\* C26 witness for Europages: page 2 of a term listed only slugs seen before
\* and had a next link, and the term has ended there.
C26_EuropagesWitness ==
  /\ portal = "europages" /\ pc = "u_term" /\ reqPage = 2
  /\ n >= 1 /\ slugs = <<>> /\ listNext /\ err = "none" /\ net = "page"

C27_EuropagesWitness ==
  /\ portal = "europages" /\ net = "detail" /\ err = "transport"
  /\ pc = "u_slug" /\ idx = 1 /\ companies = <<>>

\* C28: in Europages and Empresia every key in the seen set belongs to an
\* emitted record; taken at its weakest, for the keys whose item has been
\* handled: once the run has returned without exception and short of its
\* limit, no key is left in the seen set without a record.
C28_SeenHaveRecords ==
  (portal \in {"europages", "empresia"} /\ pc = "done" /\ ~exc
     /\ ~(limit # 0 /\ Len(companies) >= limit))
    => \A k \in seen : Count(k) >= 1

\* C29: in a Europages run the seen set is never reset or shrunk, from page
\* to page and from term to term; the slugs kept from a search page are
\* pairwise different and none was in the seen set before, all are in it
\* afterwards, and the detail fetches go through that list once, in order:
\* no slug is detail-fetched twice in a run.
C29_SlugFetchedOnce ==
  [][portal = "europages" =>
       /\ seen \subseteq seen'
       /\ (pc = "u_page" /\ pc' = "u_slug") =>
            /\ \A i, j \in 1..Len(slugs') : slugs'[i] = slugs'[j] => i = j
            /\ \A i \in 1..Len(slugs') : slugs'[i] \notin seen /\ slugs'[i] \in seen'
            /\ idx' = 0
       /\ (pc = "u_slug" /\ pc' = "u_slug") =>
            (slugs' = slugs /\ idx < Len(slugs) /\ idx' = idx + 1)
       /\ net' = "detail" => (pc = "u_slug" /\ pc' = "u_slug") ]_vars

\* C29 witness: the search page of the second term lists two companies, one
\* of them seen under the first term, and only the other is up for a fetch.
C29_Witness ==
  /\ portal = "europages" /\ pc = "u_slug" /\ scope = 2
  /\ n = 2 /\ Len(slugs) = 1 /\ Cardinality(seen) = 2

====
